---- MODULE Spec2Model ----
(***************************************************************************)
(* Daily delivery earnings: the earnings calculator (SQL function          *)
(* public.calculate_earnings), the daily_earnings table with its           *)
(* uniqueness constraint and row policies, and the React client (App       *)
(* session handling, Dashboard form, insert/delete mutations and the       *)
(* cached "earnings" / "summary" queries).                                 *)
(***************************************************************************)
EXTENDS Integers, Sequences, FiniteSets, TLC

(***************************************************************************)
(* Bounds of the model                                                     *)
(***************************************************************************)
\* order counts handed to calculate_earnings range over -MinOrdersBelow..MaxOrders
MaxOrders == 62
MinOrdersBelow == 2

\* cash amounts handed to calculate_earnings (morning_cash, evening_cash)
CashAmounts == {0, 100, 200, 500, 850, 5000}

OrderCounts == (0 - MinOrdersBelow)..MaxOrders

\* calendar days the client's clock runs through
MaxDay == 2
\* insert and delete calls the Dashboard issues in one run
MaxRequests == 3

\* the days up to today of the run of the weekly chart
ChartDays == 9

\* subDays(new Date(), 7)
ChartWindow == 7

\* accounts of the auth provider; the session is one of them or NoSession (null)
Accounts == {"denis", "other"}
NoSession == "null"

\* what the user types into the five number inputs of the form, when the
\* form is studied on its own
MorningInputs == {-1, 200}
EveningInputs == {-1, 100}
TotalInputs   == {-1, 10, 40}
CashInputs    == {-1, 11, 35}
TipsInputs    == {-1, 0}

\* what the user types in the run of one Dashboard over the days (with
\* morning_cash 200 and evening_cash 100)
DayTotals == {10, 40}
DayCash   == {11, 35}
DayTips   == {5}

\* the order counts the user types in the run across sessions (with
\* morning_cash 200, evening_cash 100 and no online tips)
SessionTotals == {40}
SessionCash   == {35, 41}

VARIABLES
  args,        \* arguments of the calculate_earnings call under study
  result,      \* {} before the call returned, {its result} after
  today,       \* the calendar date of the client's clock (new Date())
  rows,        \* public.daily_earnings
  nextId,      \* ids gen_random_uuid() has handed out
  authUser,    \* the auth provider's persisted session: an account or NoSession
  getSession,  \* the promise of supabase.auth.getSession() in App's effect
  session,     \* App: useState session
  loading,     \* App: useState loading
  mounted,     \* App is mounted: its effect's auth subscription is registered
  form,        \* Dashboard: the values held by useForm
  formErrors,  \* Dashboard: fields with an inline validation message
  pending,     \* Dashboard: insertMutation.isPending
  inserts,     \* insert calls sent and not yet settled
  deletes,     \* delete calls sent and not yet settled
  issued,      \* number of insert and delete calls issued so far
  settled,     \* history: the insert calls the store answered, with its answer
  toast,       \* notifications of the two mutations: how many, and the last one
  chart,       \* Dashboard: chartData as last rendered, with the clock it saw
  earningsQ,   \* queryClient cache entry of key ["earnings"]
  summaryQ     \* queryClient cache entries of keys ["summary", userId]

calcVars == <<args, result>>
storeVars == <<rows, nextId>>
authVars == <<authUser, getSession, session, loading, mounted>>
formVars == <<form, formErrors, pending>>
callVars == <<inserts, deletes, issued, settled, toast>>
cacheVars == <<earningsQ, summaryQ>>
appVars == <<today, storeVars, authVars, formVars, callVars, cacheVars, chart>>
vars == <<calcVars, appVars>>

(***************************************************************************)
(* public.calculate_earnings, local by local                               *)
(***************************************************************************)
\* slip: the second tier is dropped, every cash order is valued at 55
MutExpectedCashFlat(cash_orders) == cash_orders * 55

expected_cash(cash_orders) ==
  IF cash_orders <= 30 THEN cash_orders * 55
  ELSE (30 * 55) + ((cash_orders - 30) * 75)

\* slip: the difference is taken the other way round
MutCashDiffSwapped(morning_cash, evening_cash) == morning_cash - evening_cash

actual_cash_diff(morning_cash, evening_cash) == evening_cash - morning_cash

\* slip: a floor at zero is put under the cash earnings
MutCashEarningsFloored(cash_orders, morning_cash, evening_cash) ==
  IF (evening_cash - morning_cash) + expected_cash(cash_orders) < 0 THEN 0
  ELSE (evening_cash - morning_cash) + expected_cash(cash_orders)

calc_cash_earnings(cash_orders, morning_cash, evening_cash) ==
  actual_cash_diff(morning_cash, evening_cash) + expected_cash(cash_orders)

\* slip: the online orders are valued at the first tier's rate throughout
MutOnlineEarningsFlat(total_orders, cash_orders) ==
  (total_orders - cash_orders) * 55

\* slip: the online orders are counted as cash_orders - total_orders
MutOnlineOrdersSwapped(total_orders, cash_orders) ==
  IF (cash_orders - total_orders) <= 30 THEN (cash_orders - total_orders) * 55
  ELSE (30 * 55) + (((cash_orders - total_orders) - 30) * 75)

calc_online_earnings(total_orders, cash_orders) ==
  IF (total_orders - cash_orders) <= 30 THEN (total_orders - cash_orders) * 55
  ELSE (30 * 55) + (((total_orders - cash_orders) - 30) * 75)

\* slip: the bonus is not held at zero up to the 30th order
MutBonusNoThreshold(total_orders) == (total_orders - 30) * 20

\* slip: the function reads daily_earnings and withholds the bonus once a
\* record is stored
MutBonusReadsStore(total_orders) ==
  IF total_orders > 30 /\ rows = {} THEN (total_orders - 30) * 20 ELSE 0

calc_bonus_earnings(total_orders) ==
  IF total_orders > 30 THEN (total_orders - 30) * 20 ELSE 0

\* slip: the bonus is left out of the total
MutTotalWithoutBonus(total_orders, cash_orders, morning_cash, evening_cash) ==
  calc_cash_earnings(cash_orders, morning_cash, evening_cash)
    + calc_online_earnings(total_orders, cash_orders)

calc_total_earnings(total_orders, cash_orders, morning_cash, evening_cash) ==
  calc_cash_earnings(cash_orders, morning_cash, evening_cash)
    + calc_online_earnings(total_orders, cash_orders)
    + calc_bonus_earnings(total_orders)

\* RETURN QUERY SELECT calc_cash_earnings, calc_online_earnings, ...
calculate_earnings(total_orders, cash_orders, morning_cash, evening_cash) ==
  [cash_earnings   |-> calc_cash_earnings(cash_orders, morning_cash, evening_cash),
   online_earnings |-> calc_online_earnings(total_orders, cash_orders),
   bonus_earnings  |-> calc_bonus_earnings(total_orders),
   total_earnings  |-> calc_total_earnings(total_orders, cash_orders,
                                           morning_cash, evening_cash)]

(***************************************************************************)
(* public.daily_earnings: columns, UNIQUE(user_id, date), row policies     *)
(***************************************************************************)
\* the account the four row policies name: USING (user_id = 'denis')
PolicyOwner == "denis"

SelectPolicy(r) == r.user_id = PolicyOwner
InsertPolicy(r) == r.user_id = PolicyOwner
DeletePolicy(r) == r.user_id = PolicyOwner

\* slip: the table is created without its UNIQUE(user_id, date) constraint
MutNoUniqueConstraint(r, table) == TRUE

\* UNIQUE(user_id, date): may r be added to table
UniqueUserDate(r, table) ==
  \A o \in table : ~(o.user_id = r.user_id /\ o.date = r.date)

\* the row an INSERT of payload p stores: id from gen_random_uuid(), the four
\* earnings columns are not in the payload and take their DEFAULT 0
\* slip: the id is made from the date, so a day's id comes back after a delete
MutNewRowIdFromDate(id, p) ==
  [id |-> p.date, user_id |-> p.user_id, date |-> p.date,
   morning_cash |-> p.morning_cash, evening_cash |-> p.evening_cash,
   total_orders |-> p.total_orders, cash_orders |-> p.cash_orders,
   online_tips |-> p.online_tips,
   cash_earnings |-> 0, online_earnings |-> 0,
   bonus_earnings |-> 0, total_earnings |-> 0]

NewRow(id, p) ==
  [id |-> id, user_id |-> p.user_id, date |-> p.date,
   morning_cash |-> p.morning_cash, evening_cash |-> p.evening_cash,
   total_orders |-> p.total_orders, cash_orders |-> p.cash_orders,
   online_tips |-> p.online_tips,
   cash_earnings |-> 0, online_earnings |-> 0,
   bonus_earnings |-> 0, total_earnings |-> 0]

\* how the store answers an INSERT of payload p: the policy's WITH CHECK
\* first, then the unique index
InsertOutcome(p, table) ==
  IF ~InsertPolicy(p) THEN "rls"
  ELSE IF ~UniqueUserDate(p, table) THEN "unique"
  ELSE "ok"

\* slip: the order is ascending
MutSelectAscending(table) ==
  LET vis == {r \in table : SelectPolicy(r)}
      n == Cardinality(vis)
  IN {s \in [1..n -> vis] :
        /\ \A i, j \in 1..n : i # j => s[i] # s[j]
        /\ \A i \in 1..n : \A j \in 1..n : i < j => s[i].date <= s[j].date}

\* .select("*").order("date", {ascending: false}): the rows the policy shows,
\* latest date first (rows of equal date in either order)
SelectOrdered(table) ==
  LET vis == {r \in table : SelectPolicy(r)}
      n == Cardinality(vis)
  IN {s \in [1..n -> vis] :
        /\ \A i, j \in 1..n : i # j => s[i] # s[j]
        /\ \A i \in 1..n : \A j \in 1..n : i < j => s[i].date >= s[j].date}

\* SUM(column) over the rows S
RECURSIVE SumOf(_, _)
SumOf(S, column) ==
  IF S = {} THEN 0
  ELSE LET r == CHOOSE x \in S : TRUE IN r[column] + SumOf(S \ {r}, column)

\* rpc get_earnings_summary(p_user_id): one row of sums over the account's rows
get_earnings_summary(p_user_id, table) ==
  LET mine == {r \in table : r.user_id = p_user_id /\ SelectPolicy(r)}
  IN [total_online_earnings |-> SumOf(mine, "online_earnings"),
      total_bonus_earnings  |-> SumOf(mine, "bonus_earnings"),
      total_cash_earnings   |-> SumOf(mine, "cash_earnings"),
      total_online_tips     |-> SumOf(mine, "online_tips"),
      grand_total_earnings  |-> SumOf(mine, "total_earnings")
                                  + SumOf(mine, "online_tips")]

(***************************************************************************)
(* Dashboard: form schema and defaults                                     *)
(***************************************************************************)
FormInputs ==
  [morning_cash : MorningInputs, evening_cash : EveningInputs,
   total_orders : TotalInputs, cash_orders : CashInputs,
   online_tips : TipsInputs]

\* the entries of the run of one Dashboard over the days
DashboardInputs ==
  [morning_cash : {200}, evening_cash : {100},
   total_orders : DayTotals, cash_orders : DayCash, online_tips : DayTips]

\* the entries of the run across sessions
SessionInputs ==
  [morning_cash : {200}, evening_cash : {100},
   total_orders : SessionTotals, cash_orders : SessionCash, online_tips : {0}]

defaultValues ==
  [morning_cash |-> 0, evening_cash |-> 0, total_orders |-> 0,
   cash_orders |-> 0, online_tips |-> 0]

\* slip: the schema is left without its .refine on cash_orders <= total_orders
MutSchemaWithoutRefine(v) ==
  {f \in {"morning_cash", "evening_cash", "total_orders", "cash_orders",
          "online_tips"} : v[f] < 0}

\* formSchema: the paths of the issues zod reports for the values v
formSchema(v) ==
  {f \in {"morning_cash", "evening_cash", "total_orders", "cash_orders",
          "online_tips"} : v[f] < 0}
    \cup (IF v.cash_orders <= v.total_orders THEN {} ELSE {"cash_orders"})

(***************************************************************************)
(* App and Dashboard: what is rendered, and the query cache                *)
(***************************************************************************)
\* slip: the Dashboard is rendered for a session without waiting for loading
MutShownWhileLoading(ld, sess) == sess # NoSession

\* slip: the Auth view is rendered whenever loading is over
MutAuthPageWithSession(ld, sess) == ~ld

\* App renders <Dashboard key={session.user.id}> / <AuthPage/> / the loading screen
DashboardShown(ld, sess) == ~ld /\ sess # NoSession
AuthPageShown(ld, sess) == ~ld /\ sess = NoSession

\* the account whose Dashboard instance is mounted, NoSession when none is
Mounted(ld, sess) == IF DashboardShown(ld, sess) THEN sess ELSE NoSession

\* no notification of a mutation was raised yet
NoToast == [count |-> 0, last |-> "none"]

\* toast.success(...) / toast.error(...) of a mutation's onSuccess / onError
Raise(kind) == [count |-> toast.count + 1, last |-> kind]

\* a query that was never fetched: data undefined
EmptyQuery == [data |-> {}, fetching |-> FALSE, stale |-> FALSE]

\* slip: the entry is neither marked stale nor refetched
MutInvalidateNothing(q, active) == q

\* queryClient.invalidateQueries on one entry: marked stale, refetched when a
\* mounted Dashboard observes it
Invalidate(q, active) ==
  [q EXCEPT !.stale = TRUE, !.fetching = IF active THEN TRUE ELSE @]

\* useQuery on mount (staleTime 0): the entry is fetched
Observe(q) == [q EXCEPT !.fetching = TRUE]

\* the rows the history table and the chart are built from: data, default []
earnings == IF earningsQ.data = {} THEN <<>> ELSE CHOOSE s \in earningsQ.data : TRUE

\* the summary the table footer shows for the account of the mounted Dashboard
summary(a) == summaryQ[a].data

\* the five cells of the table footer once the summary is no longer loading:
\* summary?.x || 0
Footer(a) ==
  IF summaryQ[a].data = {} /\ summaryQ[a].fetching THEN {}
  ELSE IF summaryQ[a].data = {}
         THEN {[total_online_earnings |-> 0, total_bonus_earnings |-> 0,
                total_cash_earnings |-> 0, total_online_tips |-> 0,
                grand_total_earnings |-> 0]}
         ELSE summaryQ[a].data

\* the ids of the rows of the history table, each with its delete button
Listed == {earnings[i].id : i \in 1..Len(earnings)}

(***************************************************************************)
(* Initial state: the store is empty, App has just mounted (its effect ran: *)
(* getSession is pending, the auth subscription is registered), the auth   *)
(* provider holds whatever session an earlier visit left in localStorage.  *)
(***************************************************************************)
AppFresh ==
  /\ today = 1
  /\ rows = {}
  /\ nextId = 1
  /\ getSession = [state |-> "pending", data |-> NoSession]
  /\ session = NoSession
  /\ loading = TRUE
  /\ mounted = TRUE
  /\ form = defaultValues
  /\ formErrors = {}
  /\ pending = FALSE
  /\ inserts = {}
  /\ deletes = {}
  /\ issued = 0
  /\ settled = {}
  /\ toast = NoToast
  /\ chart = {}
  /\ earningsQ = EmptyQuery
  /\ summaryQ = [a \in Accounts |-> EmptyQuery]

Init ==
  /\ args = [total_orders |-> 0, cash_orders |-> 0,
             morning_cash |-> 0, evening_cash |-> 0]
  /\ result = {}
  /\ authUser \in Accounts \cup {NoSession}
  /\ AppFresh

(***************************************************************************)
(* App: session handling                                                   *)
(***************************************************************************)
\* React renders App with loading ld1 and session sess1: a Dashboard keyed by
\* another account (or none before) mounts afresh, with its two queries, a
\* new form and a new insert mutation; without a session it unmounts
Render(ld1, sess1) ==
  LET m0 == Mounted(loading, session)
      m1 == Mounted(ld1, sess1)
  IN IF m1 = m0
       THEN UNCHANGED <<formVars, cacheVars>>
       ELSE /\ form' = defaultValues
            /\ formErrors' = {}
            /\ pending' = FALSE
            /\ IF m1 = NoSession
                 THEN UNCHANGED cacheVars
                 ELSE /\ earningsQ' = Observe(earningsQ)
                      /\ summaryQ' = [summaryQ EXCEPT ![m1] = Observe(@)]

\* supabase.auth.getSession() reads the persisted session
GetSessionReads ==
  /\ getSession.state = "pending"
  /\ getSession' = [state |-> "fulfilled", data |-> authUser]
  /\ UNCHANGED <<calcVars, chart, today, storeVars, authUser, session, loading,
                 mounted, formVars, callVars, cacheVars>>

\* .then(({data: {session}}) => { setSession(session); setLoading(false) });
\* the setters of an unmounted App change nothing
GetSessionResolves ==
  /\ getSession.state = "fulfilled"
  /\ getSession' = [state |-> "done", data |-> NoSession]
  /\ IF mounted
       THEN /\ session' = getSession.data
            /\ loading' = FALSE
            /\ Render(FALSE, getSession.data)
       ELSE UNCHANGED <<session, loading, formVars, cacheVars>>
  /\ UNCHANGED <<calcVars, chart, today, storeVars, authUser, mounted, callVars>>

\* onAuthStateChange((_event, session) => setSession(session))
OnAuthStateChange(a) ==
  /\ session' = a
  /\ Render(loading, a)
  /\ UNCHANGED <<calcVars, chart, today, storeVars, getSession, loading, mounted,
                 callVars>>

\* AuthPage.handleLogin: signInWithPassword succeeds for account a
HandleLogin(a) ==
  /\ mounted
  /\ AuthPageShown(loading, session)
  /\ authUser' = a
  /\ OnAuthStateChange(a)

\* Dashboard header button: supabase.auth.signOut()
SignOut ==
  /\ mounted
  /\ DashboardShown(loading, session)
  /\ authUser' = NoSession
  /\ OnAuthStateChange(NoSession)

\* slip: the effect returns no cleanup, the callback stays registered
MutNeverUnsubscribed == TRUE

\* the callback handed to onAuthStateChange is registered: from App's effect
\* until its cleanup, subscription.unsubscribe()
Subscribed == mounted

\* the persisted session changes outside this page (another tab signs in or
\* out); the subscription, while registered, delivers it
OtherTabAuthChange(a) ==
  /\ a # authUser
  /\ authUser' = a
  /\ IF Subscribed
       THEN OnAuthStateChange(a)
       ELSE UNCHANGED <<calcVars, chart, today, storeVars, getSession, session,
                        loading, mounted, formVars, callVars, cacheVars>>

\* App unmounts: the effect's cleanup cancels the subscription; nothing is
\* rendered any more, the calls in flight go on
Unmount ==
  /\ mounted
  /\ mounted' = FALSE
  /\ form' = defaultValues
  /\ formErrors' = {}
  /\ pending' = FALSE
  /\ UNCHANGED <<calcVars, chart, today, storeVars, authUser, getSession, session,
                 loading, callVars, cacheVars>>

\* the calendar date of new Date() moves on
Midnight ==
  /\ today < MaxDay
  /\ today' = today + 1
  /\ UNCHANGED <<calcVars, chart, storeVars, authVars, formVars, callVars, cacheVars>>

(***************************************************************************)
(* Dashboard: submit, delete, and the calls settling                       *)
(***************************************************************************)
\* slip: user_id is not sent, the column default 'denis' fills it
MutPayloadColumnDefault(v) ==
  [user_id |-> PolicyOwner, date |-> today,
   morning_cash |-> v.morning_cash, evening_cash |-> v.evening_cash,
   total_orders |-> v.total_orders, cash_orders |-> v.cash_orders,
   online_tips |-> v.online_tips]

\* insertMutation.mutationFn: the object handed to .insert([...])
InsertPayload(v) ==
  [user_id |-> session, date |-> today,
   morning_cash |-> v.morning_cash, evening_cash |-> v.evening_cash,
   total_orders |-> v.total_orders, cash_orders |-> v.cash_orders,
   online_tips |-> v.online_tips]

\* the user fills in v and submits: form.handleSubmit validates with the
\* schema and calls onSubmit -> insertMutation.mutate only when it passes
OnSubmit(v) ==
  /\ mounted
  /\ DashboardShown(loading, session)
  /\ ~pending
  /\ form' = v
  /\ formErrors' = formSchema(v)
  /\ IF formSchema(v) = {}
       THEN /\ issued < MaxRequests
            /\ issued' = issued + 1
            /\ pending' = TRUE
            /\ inserts' = inserts \cup
                 {[rid |-> issued + 1, payload |-> InsertPayload(v),
                   overlap |-> {q.rid : q \in {o \in inserts :
                                  /\ o.payload.user_id = session
                                  /\ o.payload.date = today}},
                   disturbed |-> FALSE]}
       ELSE UNCHANGED <<issued, pending, inserts>>
  /\ UNCHANGED <<calcVars, chart, today, storeVars, authVars, deletes, settled,
                 toast, cacheVars>>

\* the insert call of the mounted Dashboard's mutation: the latest one sent,
\* while that mutation is pending
OfMountedDashboard(q) ==
  pending /\ \A o \in inserts : o.rid <= q.rid

\* the account whose Dashboard has its two queries observed right now
Active == IF mounted THEN Mounted(loading, session) ELSE NoSession

\* slip: only the list is invalidated, as before the summary existed
MutInvalidateEarningsOnly ==
  /\ earningsQ' = Invalidate(earningsQ, Active # NoSession)
  /\ UNCHANGED summaryQ

\* onSuccess of either mutation: both query keys are invalidated
InvalidateBoth ==
  /\ earningsQ' = Invalidate(earningsQ, Active # NoSession)
  /\ summaryQ' = [a \in Accounts |-> Invalidate(summaryQ[a], a = Active)]

\* slip: the error callback refreshes and clears like the success callback
MutInsertOnErrorResets(q) ==
  /\ toast' = Raise("save_error")
  /\ InvalidateBoth
  /\ form' = defaultValues
  /\ formErrors' = {}

\* insertMutation.onSuccess: invalidate, notify, form.reset()
InsertOnSuccess(q) ==
  /\ InvalidateBoth
  /\ toast' = Raise("saved")
  /\ form' = IF OfMountedDashboard(q) THEN defaultValues ELSE form
  /\ formErrors' = IF OfMountedDashboard(q) THEN {} ELSE formErrors

\* insertMutation.onError: the notification only
InsertOnError(q) ==
  /\ toast' = Raise("save_error")
  /\ UNCHANGED <<cacheVars, form, formErrors>>

\* slip: the success callback of the delete notifies without invalidating
MutDeleteOnSuccessNotifiesOnly ==
  /\ toast' = Raise("deleted")
  /\ UNCHANGED cacheVars

\* deleteMutation.onSuccess: invalidate, notify
DeleteOnSuccess ==
  /\ InvalidateBoth
  /\ toast' = Raise("deleted")

\* deleteMutation.onError: the notification only
DeleteOnError ==
  /\ toast' = Raise("delete_error")
  /\ UNCHANGED cacheVars

\* the store answers the insert call q, then onSuccess / onError runs
InsertSettles(q) ==
  LET out == InsertOutcome(q.payload, rows) IN
  /\ inserts' = inserts \ {q}
  /\ settled' = settled \cup
       {[rid |-> q.rid, user_id |-> q.payload.user_id, date |-> q.payload.date,
         outcome |-> out, overlap |-> q.overlap, disturbed |-> q.disturbed]}
  /\ pending' = IF OfMountedDashboard(q) THEN FALSE ELSE pending
  /\ IF out = "ok"
       THEN /\ rows' = rows \cup {NewRow(nextId, q.payload)}
            /\ nextId' = nextId + 1
            /\ InsertOnSuccess(q)
       ELSE /\ UNCHANGED storeVars
            /\ InsertOnError(q)
  /\ UNCHANGED <<calcVars, chart, today, authVars, deletes, issued>>

\* the insert call q never reaches the store (the request fails on the way):
\* supabase hands back an error, mutationFn throws, onError runs
InsertFails(q) ==
  /\ inserts' = inserts \ {q}
  /\ pending' = IF OfMountedDashboard(q) THEN FALSE ELSE pending
  /\ InsertOnError(q)
  /\ UNCHANGED <<calcVars, chart, today, storeVars, authVars, deletes, issued,
                 settled>>

\* handleDelete(e.id) for a row e of the history table
HandleDelete(id) ==
  /\ mounted
  /\ DashboardShown(loading, session)
  /\ \E i \in 1..Len(earnings) : earnings[i].id = id
  /\ issued < MaxRequests
  /\ issued' = issued + 1
  /\ deletes' = deletes \cup {[rid |-> issued + 1, id |-> id]}
  /\ UNCHANGED <<calcVars, chart, today, storeVars, authVars, formVars, inserts,
                 settled, toast, cacheVars>>

\* the store answers the delete call q (.delete().eq('id', id): the rows of
\* that id the policy lets the caller delete, none is no error), then
\* onSuccess runs
DeleteSettles(q) ==
  LET gone == {r \in rows : r.id = q.id /\ DeletePolicy(r)} IN
  /\ deletes' = deletes \ {q}
  /\ rows' = rows \ gone
  /\ inserts' = IF gone = {} THEN inserts
                ELSE {[o EXCEPT !.disturbed = TRUE] : o \in inserts}
  /\ DeleteOnSuccess
  /\ UNCHANGED <<calcVars, chart, today, nextId, authVars, formVars, issued, settled>>

\* the delete call q never reaches the store: supabase hands back an error,
\* mutationFn throws, onError runs
DeleteFails(q) ==
  /\ deletes' = deletes \ {q}
  /\ DeleteOnError
  /\ UNCHANGED <<calcVars, chart, today, storeVars, authVars, formVars, inserts,
                 issued, settled>>

\* fetchEarnings returns: the cache entry takes the rows
FetchEarningsSettles ==
  /\ earningsQ.fetching
  /\ \E s \in SelectOrdered(rows) :
       earningsQ' = [data |-> {s}, fetching |-> FALSE, stale |-> FALSE]
  /\ UNCHANGED <<calcVars, chart, today, storeVars, authVars, formVars, callVars,
                 summaryQ>>

\* slip: for an account without rows the response has no row, data[0] is
\* undefined and the query is left without data
MutFetchSummaryNoRow(a) ==
  /\ summaryQ[a].fetching
  /\ summaryQ' = [summaryQ EXCEPT ![a] =
       [data |-> IF \E r \in rows : r.user_id = a
                   THEN {get_earnings_summary(a, rows)} ELSE {},
        fetching |-> FALSE, stale |-> FALSE]]
  /\ UNCHANGED <<calcVars, chart, today, storeVars, authVars, formVars, callVars,
                 earningsQ>>

\* fetchSummary(userId) returns data[0]: the cache entry takes the sums
FetchSummarySettles(a) ==
  /\ summaryQ[a].fetching
  /\ summaryQ' = [summaryQ EXCEPT ![a] =
       [data |-> {get_earnings_summary(a, rows)},
        fetching |-> FALSE, stale |-> FALSE]]
  /\ UNCHANGED <<calcVars, chart, today, storeVars, authVars, formVars, callVars,
                 earningsQ>>

(***************************************************************************)
(* A call of public.calculate_earnings with the arguments a.  expected_cash *)
(* is a local of the function; the call records it beside the four returned *)
(* columns.                                                                *)
(***************************************************************************)
Calculate(a) ==
  /\ args' = a
  /\ result' = {[call |-> 1,
                 ret |-> calculate_earnings(a.total_orders, a.cash_orders,
                                            a.morning_cash, a.evening_cash),
                 expected_cash |-> expected_cash(a.cash_orders)]}
  /\ UNCHANGED appVars

\* a second call with the arguments of the first, at any later moment; its
\* result is kept beside the first
Recalculate ==
  /\ Cardinality(result) = 1
  /\ result' = result \cup
       {[call |-> 2,
         ret |-> calculate_earnings(args.total_orders, args.cash_orders,
                                    args.morning_cash, args.evening_cash),
         expected_cash |-> expected_cash(args.cash_orders)]}
  /\ UNCHANGED <<args, appVars>>

\* the session-level run: the application from its construction, across
\* sign-ins and sign-outs, on one calendar day
Next ==
  \/ GetSessionReads
  \/ GetSessionResolves
  \/ \E a \in Accounts : HandleLogin(a)
  \/ SignOut
  \/ \E a \in Accounts \cup {NoSession} : OtherTabAuthChange(a)
  \/ \E v \in SessionInputs : OnSubmit(v)
  \/ \E q \in inserts : InsertSettles(q)
  \/ \E id \in Listed : HandleDelete(id)
  \/ \E q \in deletes : DeleteSettles(q)
  \/ FetchEarningsSettles
  \/ \E a \in Accounts : FetchSummarySettles(a)

Spec == Init /\ [][Next]_vars

(***************************************************************************)
(* The application from its construction to its teardown: the session-level *)
(* run without deletes, and App unmounting at any moment.                   *)
(***************************************************************************)
NextTeardown ==
  \/ GetSessionReads
  \/ GetSessionResolves
  \/ \E a \in Accounts : HandleLogin(a)
  \/ SignOut
  \/ \E a \in Accounts \cup {NoSession} : OtherTabAuthChange(a)
  \/ Unmount
  \/ \E v \in SessionInputs : OnSubmit(v)
  \/ \E q \in inserts : InsertSettles(q)
  \/ FetchEarningsSettles
  \/ \E a \in Accounts : FetchSummarySettles(a)

SpecTeardown == Init /\ [][NextTeardown]_vars

(***************************************************************************)
(* The weekly chart: a Dashboard whose list holds records of any of the    *)
(* last ChartDays days is rendered at some time of the day, in some time   *)
(* zone.  Instants are minutes since the epoch of day 0, UTC.              *)
(***************************************************************************)
\* new Date("yyyy-MM-dd"): a date-only string is read as UTC midnight
DateInstant(date) == date * 1440

\* new Date(): the instant of the local day, minute of the day, and zone
\* (minutes east of UTC)
NowInstant(day, minute, zone) == day * 1440 + minute - zone

\* subDays(t, n)
subDays(t, n) == t - n * 1440

\* format(t, "d. M."): the local calendar day of the instant t
LocalDay(t, zone) == (t + zone) \div 1440

\* chartData: filter, map, reverse
chartData(list, day, minute, zone) ==
  LET kept == SelectSeq(list, LAMBDA e :
                DateInstant(e.date)
                  >= subDays(NowInstant(day, minute, zone), ChartWindow))
      n == Len(kept)
  IN [i \in 1..n |->
        [date |-> LocalDay(DateInstant(kept[n + 1 - i].date), zone),
         celkem |-> kept[n + 1 - i].total_earnings,
         dyska |-> kept[n + 1 - i].cash_earnings + kept[n + 1 - i].online_tips]]

\* fetchEarnings over rows of one account: the one order .order("date",
\* {ascending: false}) leaves to rows of distinct dates
OrderedByDate(table) ==
  [i \in 1..Cardinality(table) |->
     CHOOSE r \in table : Cardinality({x \in table : x.date >= r.date}) = i]

\* the Dashboard renders at the local time minute in the zone
RenderChart(minute, zone) ==
  /\ mounted
  /\ DashboardShown(loading, session)
  /\ chart' = {[minute |-> minute, zone |-> zone,
                points |-> chartData(earnings, today, minute, zone)]}
  /\ UNCHANGED <<calcVars, today, storeVars, authVars, formVars, callVars,
                 cacheVars>>

\* half past midnight, noon, half past eleven at night
RenderTimes == {30, 720, 1410}

\* New York, UTC, Prague (winter)
Zones == {0 - 300, 0, 60}

\* denis's Dashboard on day ChartDays, the list fetched, the store holding
\* denis's records of some of the days up to today
InitChart ==
  /\ args = [total_orders |-> 0, cash_orders |-> 0,
             morning_cash |-> 0, evening_cash |-> 0]
  /\ result = {}
  /\ today = ChartDays
  /\ \E D \in SUBSET (1..ChartDays) :
        rows = {NewRow(d, [user_id |-> "denis", date |-> d,
                           morning_cash |-> 200, evening_cash |-> 100,
                           total_orders |-> 40, cash_orders |-> 35,
                           online_tips |-> 5]) : d \in D}
  /\ nextId = ChartDays + 1
  /\ authUser = "denis"
  /\ getSession = [state |-> "done", data |-> NoSession]
  /\ session = "denis"
  /\ loading = FALSE
  /\ mounted = TRUE
  /\ form = defaultValues
  /\ formErrors = {}
  /\ pending = FALSE
  /\ inserts = {}
  /\ deletes = {}
  /\ issued = 0
  /\ settled = {}
  /\ toast = NoToast
  /\ chart = {}
  /\ earningsQ = [data |-> {OrderedByDate(rows)},
                   fetching |-> FALSE, stale |-> FALSE]
  /\ summaryQ = [a \in Accounts |->
                   IF a = "denis"
                     THEN [data |-> {get_earnings_summary(a, rows)},
                           fetching |-> FALSE, stale |-> FALSE]
                     ELSE EmptyQuery]

NextChart == \E minute \in RenderTimes, zone \in Zones : RenderChart(minute, zone)

SpecChart == InitChart /\ [][NextChart]_vars

(***************************************************************************)
(* The calculator on its own: one call, arguments from the bounded sets    *)
(***************************************************************************)
CalcArgs ==
  [total_orders : OrderCounts, cash_orders : OrderCounts,
   morning_cash : CashAmounts, evening_cash : CashAmounts]

InitCalc ==
  /\ args \in CalcArgs
  /\ result = {}
  /\ authUser = NoSession
  /\ AppFresh

CalculateOnce == result = {} /\ Calculate(args)

NextCalc == CalculateOnce

SpecCalc == InitCalc /\ [][NextCalc]_vars

(***************************************************************************)
(* One signed-in Dashboard over the days: the state once getSession has    *)
(* resolved with the persisted session of an account and the Dashboard has *)
(* mounted; beside it, calls of calculate_earnings on the worked examples  *)
(* and on one argument list outside the form's validation.                 *)
(***************************************************************************)
ExampleArgs ==
  {[total_orders |-> 25, cash_orders |-> 10, morning_cash |-> 200, evening_cash |-> 850],
   [total_orders |-> 40, cash_orders |-> 35, morning_cash |-> 100, evening_cash |-> 500],
   [total_orders |-> 10, cash_orders |-> 11, morning_cash |-> 5000, evening_cash |-> 0]}

\* the application once getSession has resolved with the persisted session
\* of an account and its Dashboard has mounted
DashboardMounted ==
  /\ today = 1
  /\ rows = {}
  /\ nextId = 1
  /\ authUser \in Accounts
  /\ getSession = [state |-> "done", data |-> NoSession]
  /\ session = authUser
  /\ loading = FALSE
  /\ mounted = TRUE
  /\ form = defaultValues
  /\ formErrors = {}
  /\ pending = FALSE
  /\ inserts = {}
  /\ deletes = {}
  /\ issued = 0
  /\ settled = {}
  /\ toast = NoToast
  /\ chart = {}
  /\ earningsQ = Observe(EmptyQuery)
  /\ summaryQ = [a \in Accounts |->
                   IF a = authUser THEN Observe(EmptyQuery) ELSE EmptyQuery]

InitDash ==
  /\ args \in ExampleArgs
  /\ result = {}
  /\ DashboardMounted

NextDash ==
  \/ Midnight
  \/ \E v \in DashboardInputs : OnSubmit(v)
  \/ \E q \in inserts : InsertSettles(q)
  \/ \E q \in inserts : InsertFails(q)
  \/ \E id \in Listed : HandleDelete(id)
  \/ \E q \in deletes : DeleteSettles(q)
  \/ \E q \in deletes : DeleteFails(q)
  \/ FetchEarningsSettles
  \/ \E a \in Accounts : FetchSummarySettles(a)
  \/ CalculateOnce

SpecDash == InitDash /\ [][NextDash]_vars

(***************************************************************************)
(* The form of one mounted Dashboard on one day: every combination of the  *)
(* form's inputs, negative ones included, is typed in and submitted.       *)
(***************************************************************************)
InitForm ==
  /\ args = [total_orders |-> 0, cash_orders |-> 0,
             morning_cash |-> 0, evening_cash |-> 0]
  /\ result = {}
  /\ DashboardMounted

NextForm ==
  \/ \E v \in FormInputs : OnSubmit(v)
  \/ \E q \in inserts : InsertSettles(q)
  \/ \E q \in inserts : InsertFails(q)
  \/ FetchEarningsSettles
  \/ \E a \in Accounts : FetchSummarySettles(a)

SpecForm == InitForm /\ [][NextForm]_vars

(***************************************************************************)
(* One mounted Dashboard on one day, mutations and refetches, with the     *)
(* store answering every query request it was sent: a request of useQuery  *)
(* that is in flight stays so until its response arrives, and the response *)
(* of a reachable store does arrive (weak fairness of the two settles).    *)
(***************************************************************************)
LiveInputs ==
  [morning_cash : {200}, evening_cash : {100},
   total_orders : SessionTotals, cash_orders : SessionCash,
   online_tips : DayTips]

NextLive ==
  \/ \E v \in LiveInputs : OnSubmit(v)
  \/ \E q \in inserts : InsertSettles(q)
  \/ \E q \in inserts : InsertFails(q)
  \/ \E id \in Listed : HandleDelete(id)
  \/ \E q \in deletes : DeleteSettles(q)
  \/ \E q \in deletes : DeleteFails(q)
  \/ FetchEarningsSettles
  \/ \E a \in Accounts : FetchSummarySettles(a)

SpecLive ==
  /\ InitForm
  /\ [][NextLive]_vars
  /\ WF_vars(FetchEarningsSettles)
  /\ \A a \in Accounts : WF_vars(FetchSummarySettles(a))

(***************************************************************************)
(* Calls of calculate_earnings beside a working Dashboard: the function is *)
(* called with one of the worked examples, and called again with the same  *)
(* arguments, whatever was stored or deleted before or in between.         *)
(***************************************************************************)
NextCalls ==
  \/ \E v \in LiveInputs : OnSubmit(v)
  \/ \E q \in inserts : InsertSettles(q)
  \/ \E id \in Listed : HandleDelete(id)
  \/ \E q \in deletes : DeleteSettles(q)
  \/ FetchEarningsSettles
  \/ \E a \in Accounts : FetchSummarySettles(a)
  \/ CalculateOnce
  \/ Recalculate

SpecCalls == InitDash /\ [][NextCalls]_vars

(***************************************************************************)
(* Properties of the calculator (checked under SpecCalc)                   *)
(***************************************************************************)
\* the tiered rate as the specification states it
Tier(n) == IF n <= 30 THEN n * 55 ELSE 1650 + (n - 30) * 75

\* C1: for every cash_orders c >= 0 the expected_cash that calculate_earnings
\* computes is tier(c): c*55 up to 30, 1650 + (c-30)*75 beyond
C1_ExpectedCashIsTier ==
  \A r \in result :
    args.cash_orders >= 0 =>
      /\ r.expected_cash = Tier(args.cash_orders)
      /\ args.cash_orders <= 30 => r.expected_cash = args.cash_orders * 55
      /\ args.cash_orders > 30 =>
           r.expected_cash = 1650 + (args.cash_orders - 30) * 75

\* a call with 35 cash orders returned: expected_cash is in the second tier
C1_Witness ==
  \E r \in result : args.cash_orders = 35 /\ r.expected_cash = 2025

\* C2: bonus_earnings is 0 for total_orders <= 30 and (total_orders-30)*20
\* beyond, whatever the split of the orders between cash and online
C2_BonusFromTotalOrders ==
  \A r \in result :
    args.total_orders >= 0 =>
      r.ret.bonus_earnings =
        IF args.total_orders <= 30 THEN 0 ELSE (args.total_orders - 30) * 20

\* 40 orders of which neither the 20 cash nor the 20 online ones exceed 30:
\* the bonus is paid on the combined total
C2_Witness ==
  \E r \in result :
    /\ args.total_orders = 40
    /\ args.cash_orders = 20
    /\ r.ret.bonus_earnings = 200

\* C5: cash_earnings = (evening_cash - morning_cash) + tier(cash_orders) for
\* all inputs, not clamped: negative whenever morning_cash - evening_cash
\* exceeds tier(cash_orders)
C5_CashEarningsSigned ==
  \A r \in result :
    /\ r.ret.cash_earnings =
         (args.evening_cash - args.morning_cash) + Tier(args.cash_orders)
    /\ args.morning_cash - args.evening_cash > Tier(args.cash_orders)
         => r.ret.cash_earnings < 0

\* the drawer shrank by 5000 with 10 cash orders: cash_earnings is -4450
C5_Witness ==
  \E r \in result :
    /\ args.morning_cash = 5000
    /\ args.evening_cash = 0
    /\ args.cash_orders = 10
    /\ r.ret.cash_earnings = 0 - 4450

\* C6: for 0 <= cash_orders <= total_orders, online_earnings is
\* tier(total_orders - cash_orders), the same tier as for the cash orders
C6_OnlineEarningsIsTier ==
  \A r \in result :
    (0 <= args.cash_orders /\ args.cash_orders <= args.total_orders) =>
      r.ret.online_earnings = Tier(args.total_orders - args.cash_orders)

\* 45 online orders beside 10 cash orders: the online value is in the
\* second tier
C6_Witness ==
  \E r \in result :
    /\ args.total_orders = 55
    /\ args.cash_orders = 10
    /\ r.ret.online_earnings = 1650 + 15 * 75

\* C7: the two worked examples: (25, 10, 200, 850) gives 1200, 825, 0, 2025
\* and (40, 35, 100, 500) gives 2425, 275, 200, 2900
C7_WorkedExamples ==
  \A r \in result :
    /\ args = [total_orders |-> 25, cash_orders |-> 10,
               morning_cash |-> 200, evening_cash |-> 850]
         => r.ret = [cash_earnings |-> 1200, online_earnings |-> 825,
                     bonus_earnings |-> 0, total_earnings |-> 2025]
    /\ args = [total_orders |-> 40, cash_orders |-> 35,
               morning_cash |-> 100, evening_cash |-> 500]
         => r.ret = [cash_earnings |-> 2425, online_earnings |-> 275,
                     bonus_earnings |-> 200, total_earnings |-> 2900]

\* the call on the second example returned
C7_Witness ==
  /\ result # {}
  /\ args = [total_orders |-> 40, cash_orders |-> 35,
             morning_cash |-> 100, evening_cash |-> 500]

(***************************************************************************)
(* Properties of the records                                               *)
(***************************************************************************)
EarningsIdentity(r) ==
  r.total_earnings = r.cash_earnings + r.online_earnings + r.bonus_earnings

\* C3: every earnings record, just computed by calculate_earnings or stored
\* in daily_earnings after any inserts and deletes (and so every listed
\* one), has total_earnings = cash_earnings + online_earnings +
\* bonus_earnings (checked under SpecDash)
C3_TotalIsSumOfParts ==
  /\ \A r \in result : EarningsIdentity(r.ret)
  /\ \A r \in rows : EarningsIdentity(r)
  /\ \A i \in 1..Len(earnings) : EarningsIdentity(earnings[i])

\* a call with a bonus returned, and of two records inserted one was deleted
C3_Witness ==
  /\ \E r \in result : r.ret.bonus_earnings > 0
  /\ nextId = 3
  /\ Cardinality(rows) = 1

\* C4: the stored record's cash_earnings, online_earnings, bonus_earnings
\* and total_earnings are what calculate_earnings returns for its
\* total_orders, cash_orders, morning_cash and evening_cash (Spec)
C4_StoredAsCalculated ==
  \A r \in rows :
    [cash_earnings |-> r.cash_earnings, online_earnings |-> r.online_earnings,
     bonus_earnings |-> r.bonus_earnings, total_earnings |-> r.total_earnings]
      = calculate_earnings(r.total_orders, r.cash_orders,
                           r.morning_cash, r.evening_cash)

(***************************************************************************)
(* Properties of the form (checked under SpecForm)                         *)
(***************************************************************************)
\* the entries the validation is to reject
Rejected(v) ==
  \/ v.morning_cash < 0
  \/ v.evening_cash < 0
  \/ v.total_orders < 0
  \/ v.cash_orders < 0
  \/ v.online_tips < 0
  \/ v.cash_orders > v.total_orders

\* C8: a submission with a negative field or with cash_orders > total_orders
\* sends no insert call and leaves the stored records, the cached list and
\* the cached summary as they were; no call in flight and no stored record
\* ever carries such values
C8_InvalidNeverReachesStore ==
  /\ [][(form' # form /\ Rejected(form')) =>
          UNCHANGED <<rows, nextId, inserts, issued, pending, earningsQ,
                      summaryQ>>]_vars
  /\ [](\A q \in inserts : ~Rejected(q.payload))
  /\ [](\A r \in rows : ~Rejected(r))

\* cash_orders = 11 with total_orders = 10 was submitted while a record is
\* stored: the message sits on cash_orders and no call is in flight
C8_Witness ==
  /\ form = [morning_cash |-> 200, evening_cash |-> 100, total_orders |-> 10,
             cash_orders |-> 11, online_tips |-> 0]
  /\ formErrors = {"cash_orders"}
  /\ inserts = {}
  /\ rows # {}

(***************************************************************************)
(* Properties across sessions (checked under Spec)                         *)
(***************************************************************************)
UniqueRows ==
  \A r1, r2 \in rows :
    (r1.user_id = r2.user_id /\ r1.date = r2.date) => r1 = r2

\* two settled insert calls for the same account and date of which the
\* second was sent while the first was in flight, no delete having removed
\* a record while either was in flight
Raced(q1, q2) ==
  /\ q1.rid \in q2.overlap
  /\ ~q1.disturbed
  /\ ~q2.disturbed

\* C9 as claimed, for calls the insert policy admits: the store holds at
\* most one record per (account, date), and of two inserts for the same
\* account and date in flight concurrently exactly one succeeds and the
\* other fails with a uniqueness error
C9_ExactlyOneSucceeds ==
  /\ UniqueRows
  /\ \A q1, q2 \in settled :
       (Raced(q1, q2) /\ InsertPolicy(q1)) =>
         \/ q1.outcome = "ok" /\ q2.outcome = "unique"
         \/ q1.outcome = "unique" /\ q2.outcome = "ok"

\* C9 as amended: the store holds at most one record per (account, date);
\* of two inserts for the same account and date in flight concurrently at
\* most one succeeds, and when one succeeds the other fails with a
\* uniqueness error
C9_AtMostOneSucceeds ==
  /\ UniqueRows
  /\ \A q1, q2 \in settled :
       Raced(q1, q2) =>
         /\ ~(q1.outcome = "ok" /\ q2.outcome = "ok")
         /\ q1.outcome = "ok" => q2.outcome = "unique"
         /\ q2.outcome = "ok" => q1.outcome = "unique"

\* two inserts of one account for one date were in flight together; one
\* succeeded, the other failed on the unique constraint
C9_Witness ==
  \E q1, q2 \in settled :
    /\ Raced(q1, q2)
    /\ q1.user_id = q2.user_id
    /\ q1.date = q2.date
    /\ {q1.outcome, q2.outcome} = {"ok", "unique"}
    /\ Cardinality(rows) = 1

\* C10: what the Dashboard shows for the account of the session (history
\* list and chart, built from the cached list) holds no record of another
\* account
C10_ShowsOwnRecordsOnly ==
  DashboardShown(loading, session) =>
    \A i \in 1..Len(earnings) : earnings[i].user_id = session

(***************************************************************************)
(* Properties of the caches after a mutation (checked under SpecLive,      *)
(* SpecDash)                                                               *)
(***************************************************************************)
\* the records the store holds for account a
Held(a) == {r \in rows : r.user_id = a}

\* the five sums over the records the store holds for account a
SumsOfHeld(a) ==
  [total_online_earnings |-> SumOf(Held(a), "online_earnings"),
   total_bonus_earnings |-> SumOf(Held(a), "bonus_earnings"),
   total_cash_earnings |-> SumOf(Held(a), "cash_earnings"),
   total_online_tips |-> SumOf(Held(a), "online_tips"),
   grand_total_earnings |-> SumOf(Held(a), "total_earnings")
                              + SumOf(Held(a), "online_tips")]

\* the step is a success callback of a mutation
Succeeded ==
  /\ toast'.count = toast.count + 1
  /\ toast'.last \in {"saved", "deleted"}

\* the step is an error callback of a mutation
Failed ==
  /\ toast'.count = toast.count + 1
  /\ toast'.last \in {"save_error", "delete_error"}

\* both cache keys are marked stale
Invalidated == earningsQ.stale /\ \A a \in Accounts : summaryQ[a].stale

\* no mutation is in flight
Quiet == inserts = {} /\ deletes = {}

\* the table and its footer show what the store holds for the account
ShownIsStored ==
  /\ {earnings[i] : i \in 1..Len(earnings)} = Held(Active)
  /\ Footer(Active) = {SumsOfHeld(Active)}

C12_FailureOnlyNotifies ==
  [][Failed => UNCHANGED <<rows, nextId, earningsQ, summaryQ, form, formErrors,
                           session, loading, mounted>>]_vars

C12_Witness ==
  /\ toast.last = "save_error"
  /\ form # defaultValues
  /\ rows # {}
  /\ earningsQ.data # {}
  /\ ~earningsQ.stale /\ ~earningsQ.fetching

\* the cached summary of account a is a settled response that no later
\* mutation invalidated
FreshSummary(a) ==
  summaryQ[a].data # {} /\ ~summaryQ[a].stale /\ ~summaryQ[a].fetching

ZeroSummary ==
  [total_online_earnings |-> 0, total_bonus_earnings |-> 0,
   total_cash_earnings |-> 0, total_online_tips |-> 0,
   grand_total_earnings |-> 0]

AnswersMissing(q) ==
  /\ deletes' = deletes \ {q}
  /\ {r \in rows : r.id = q.id /\ SelectPolicy(r)} = {}

\* C15 as claimed: a delete whose id matches no visible record fails with a
\* store error (error notification, no invalidation) and leaves the stored
\* records unchanged
C15_MissingDeleteFails ==
  [][\A q \in deletes :
       AnswersMissing(q) =>
         /\ toast'.last = "delete_error"
         /\ UNCHANGED <<rows, earningsQ, summaryQ>>]_vars

\* C15 amended: a delete whose id matches no visible record leaves the stored
\* records unchanged and is answered without an error: the success callback
\* runs, raising the success notification and invalidating both cache keys
C15_MissingDeleteSucceeds ==
  [][\A q \in deletes :
       AnswersMissing(q) =>
         /\ rows' = rows
         /\ toast' = [count |-> toast.count + 1, last |-> "deleted"]
         /\ Invalidated']_vars

C15_Witness ==
  /\ issued = 3
  /\ Quiet
  /\ nextId = 2
  /\ Cardinality(settled) = 1
  /\ rows = {}
  /\ toast = [count |-> 3, last |-> "deleted"]

(***************************************************************************)
(* Properties of App's session handling (checked under Spec, SpecTeardown) *)
(***************************************************************************)
\* no call to the store was sent or is cached
NoStoreCall ==
  /\ issued = 0
  /\ Quiet
  /\ earningsQ = EmptyQuery
  /\ \A a \in Accounts : summaryQ[a] = EmptyQuery

\* C16: from startup until the initial session lookup has resolved (loading),
\* neither the Auth view nor the Dashboard is rendered and no store call is
\* issued, whatever auth event arrives meanwhile; once it has resolved, one
\* of the two views is rendered and loading never comes back
C16_NothingUntilResolved ==
  /\ [](loading <=> getSession.state # "done")
  /\ [](loading => /\ ~DashboardShown(loading, session)
                   /\ ~AuthPageShown(loading, session)
                   /\ NoStoreCall)
  /\ [](~loading => (DashboardShown(loading, session)
                       \/ AuthPageShown(loading, session)))
  /\ [][~loading => ~loading']_vars

C16_Witness ==
  /\ loading
  /\ getSession.state = "fulfilled"
  /\ session = "denis"
  /\ NoStoreCall

\* the step delivers an auth event: the provider's session changes
AuthEvent == authUser' # authUser

\* C17: once the session lookup has resolved, the Dashboard is rendered
\* exactly when the session state holds an account, and it is that account's
\* Dashboard; the Auth view is rendered exactly when the session state is
\* empty; a sign-out event leads to the Auth view, a sign-in event to the
\* Dashboard of the account that signed in
C17_ViewFollowsSession ==
  /\ [](~loading =>
          /\ DashboardShown(loading, session) <=> session \in Accounts
          /\ AuthPageShown(loading, session) <=> session = NoSession
          /\ Active = session)
  /\ [][(~loading /\ AuthEvent) =>
          /\ session' = authUser'
          /\ authUser' = NoSession => AuthPageShown(loading', session')
          /\ authUser' # NoSession =>
                /\ DashboardShown(loading', session')
                /\ Mounted(loading', session') = authUser']_vars

C17_Witness ==
  /\ ~loading
  /\ authUser = "other"
  /\ Active = "other"
  /\ rows # {}
  /\ form = defaultValues

\* C18: after App's teardown the auth subscription is cancelled: no step,
\* auth events included, changes the session state any more; the teardown
\* itself cancels no call in flight, the calls go on to settle
C18_TeardownCancelsSubscription ==
  /\ [][~mounted => UNCHANGED <<session, loading, mounted>>]_vars
  /\ [][(mounted /\ ~mounted') =>
          UNCHANGED <<storeVars, inserts, deletes, earningsQ, summaryQ>>]_vars

\* torn down with denis's Dashboard shown; afterwards the provider's session
\* ended without the session state following, and an insert in flight
\* settled: it invalidated the list that nothing observes any more
C18_Witness ==
  /\ ~mounted
  /\ ~loading
  /\ session = "denis"
  /\ authUser = NoSession
  /\ rows # {}
  /\ earningsQ.stale /\ ~earningsQ.fetching

(***************************************************************************)
(* Properties of the list and the chart (checked under SpecChart, SpecDash) *)
(***************************************************************************)
\* the listed records dated within the seven days ending today, ascending
LastSevenDays ==
  LET kept == SelectSeq(earnings, LAMBDA e : e.date >= today - 6)
      n == Len(kept)
  IN [i \in 1..n |-> kept[n + 1 - i]]

\* C19 as claimed: the weekly chart holds exactly the listed records dated
\* today minus 6 days or later, each under its date, in ascending date order
C19_ChartIsLastSevenDays ==
  \A c \in chart :
    /\ Len(c.points) = Len(LastSevenDays)
    /\ \A i \in 1..Len(c.points) : c.points[i].date = LastSevenDays[i].date

\* the cached list is an answered response that no later mutation invalidated
FreshList ==
  earningsQ.data # {} /\ ~earningsQ.stale /\ ~earningsQ.fetching

\* C20: the list holds all the records of the account, latest date first:
\* after any inserts and deletes each listed record's date is strictly later
\* than the next one's
C20_ListedLatestFirst ==
  /\ \A i \in 1..(Len(earnings) - 1) : earnings[i].date > earnings[i + 1].date
  /\ (FreshList /\ Active # NoSession) =>
        Held(Active) \subseteq {earnings[i] : i \in 1..Len(earnings)}

C20_Witness ==
  /\ FreshList
  /\ Len(earnings) = 2
  /\ earnings[1].date = 2
  /\ earnings[2].date = 1
  /\ Held(Active) = {earnings[1], earnings[2]}

(***************************************************************************)
(* Properties of the record set over the Dashboard's operations (checked   *)
(* under SpecDash)                                                         *)
(***************************************************************************)
\* the ids of the stored records
Ids(table) == {r.id : r \in table}

\* C21: no step updates a record in place: a record of an id that is stored
\* before and after a step is the same in every field; a step leaves the
\* record set alone, adds one record of an id never used before, or removes
\* records, whose ids never come back
C21_NeverUpdatedInPlace ==
  /\ [][\A r1 \in rows : \A r2 \in rows' : r1.id = r2.id => r1 = r2]_vars
  /\ [][\/ rows' = rows
        \/ /\ rows \subseteq rows'
           /\ Cardinality(rows' \ rows) = 1
           /\ \A r \in rows' \ rows : r.id = nextId /\ nextId' > nextId
        \/ /\ rows' \subseteq rows
           /\ nextId' = nextId]_vars
  /\ [](\A r \in rows : r.id < nextId)

\* a record was inserted, deleted, and the same day entered again: the new
\* record has a new id
C21_Witness ==
  /\ nextId = 3
  /\ \E r \in rows : r.id = 2 /\ r.date = 1
  /\ Ids(rows) = {2}
  /\ toast = [count |-> 3, last |-> "saved"]

C23_SessionIsLatestReported ==
  getSession.state = "done" => session = authUser

(***************************************************************************)
(* Properties of the inserts of one day (checked under SpecDash)           *)
(***************************************************************************)
\* a record of the account and date of the insert call q is stored
Taken(q) ==
  \E r \in rows : r.user_id = q.payload.user_id /\ r.date = q.payload.date

\* C24: every insert the Dashboard sends carries the account of the session
\* the Dashboard is mounted with and the calendar date of the moment; an
\* insert settling while a record of its account and date is stored (an
\* earlier one succeeded, no delete since) fails with an error and leaves the
\* stored records unchanged, so at most one record per account and day is
\* stored
C24_OneInsertPerDay ==
  /\ [][\A q \in inserts' :
          q.rid > issued => q.payload.user_id = Active /\ q.payload.date = today]_vars
  /\ [][\A q \in inserts :
          (inserts' = inserts \ {q} /\ Taken(q)) =>
            /\ rows' = rows
            /\ toast' = [count |-> toast.count + 1, last |-> "save_error"]]_vars
  /\ []UniqueRows

\* on the second day the account submitted twice, one after the other: the
\* first succeeded, the second failed on the unique constraint
C24_Witness ==
  /\ today = 2
  /\ toast.last = "save_error"
  /\ Cardinality(rows) = 1
  /\ \E q1, q2 \in settled :
        /\ q1.date = 2 /\ q2.date = 2
        /\ q1.user_id = q2.user_id
        /\ q1.rid < q2.rid
        /\ q1.rid \notin q2.overlap
        /\ q1.outcome = "ok"
        /\ q2.outcome = "unique"

(***************************************************************************)
(* Signs of the calculator's results on validated arguments (checked under *)
(* SpecCalc)                                                               *)
(***************************************************************************)
\* the arguments pass the form's validation
Validated(a) ==
  /\ a.total_orders >= 0
  /\ a.cash_orders >= 0
  /\ a.morning_cash >= 0
  /\ a.evening_cash >= 0
  /\ a.cash_orders <= a.total_orders

\* C25: on validated arguments online_earnings >= 0 and bonus_earnings >= 0,
\* and total_earnings < 0 only when evening_cash < morning_cash
C25_NegativeOnlyWhenDrawerShrank ==
  \A r \in result :
    Validated(args) =>
      /\ r.ret.online_earnings >= 0
      /\ r.ret.bonus_earnings >= 0
      /\ r.ret.total_earnings < 0 => args.evening_cash < args.morning_cash

\* validated arguments with online orders and a bonus, the drawer shrank by
\* more than all that was earned: the total is negative
C25_Witness ==
  /\ Validated(args)
  /\ args.evening_cash < args.morning_cash
  /\ \E r \in result :
        /\ r.ret.total_earnings < 0
        /\ r.ret.online_earnings > 0
        /\ r.ret.bonus_earnings > 0

====
